---- MODULE Spec2Model ----
(***************************************************************************)
(* Model of the betting_abci skill: the three round behaviours             *)
(* (DataPull, DecisionMaking, TxPreparation) of                            *)
(* packages/valory/skills/betting_abci/behaviours.py and the Betting       *)
(* contract wrapper of packages/valory/contracts/betting/contract.py.      *)
(*                                                                         *)
(* Every agent runs its behaviours as a generator: one action of the model *)
(* is the code that runs between two yields (the awaited response arrives, *)
(* the code runs up to and including the next request it issues).          *)
(* The round coordinator (rounds.py, abstract_round_abci) is not part of   *)
(* the sources; its commit and transition steps follow the specification.  *)
(***************************************************************************)
EXTENDS Integers, Sequences, FiniteSets, TLC

(***************************************************************************)
(* Bounds of the model.                                                    *)
(***************************************************************************)
MaxTimestamp == 19
MaxBettingAmount == 2

Agents == {"agent_0", "agent_1"}

(***************************************************************************)
(* Python values. Every value carries its type, so that None, booleans,    *)
(* strings and bytes can be told apart the way the code does.              *)
(***************************************************************************)
NoneV == [type |-> "NoneType"]
Bool(b) == [type |-> "bool", val |-> b]
Str(chars) == [type |-> "str", val |-> chars]
Bytes(bs) == [type |-> "bytes", val |-> bs]
List(xs) == [type |-> "list", val |-> xs]
Dict(d) == [type |-> "dict", val |-> d]

IsNone(v) == v.type = "NoneType"

\* bool(v): the truth value Python gives to v in `if`, `and`, `not`
Truthy(v) ==
    CASE v.type = "NoneType" -> FALSE
      [] v.type = "bool" -> v.val
      [] v.type \in {"str", "bytes", "list"} -> Len(v.val) > 0
      [] OTHER -> TRUE

EmptyDict == [k \in {} |-> NoneV]

\* body.get(key, None)
DictGet(body, key) == IF key \in DOMAIN body THEN body[key] ELSE NoneV

\* s[2:]
StripMarker(chars) == SubSeq(chars, 3, Len(chars))

RECURSIVE Repeat(_, _)
Repeat(c, n) == IF n = 0 THEN <<>> ELSE <<c>> \o Repeat(c, n - 1)

HexDigits == <<"0", "1", "2", "3", "4", "5", "6", "7",
               "8", "9", "a", "b", "c", "d", "e", "f">>

HexVal(c) == CHOOSE i \in 0..15 : HexDigits[i + 1] = c

\* bytes.hex()
RECURSIVE BytesToHex(_)
BytesToHex(bs) ==
    IF bs = <<>> THEN <<>>
    ELSE <<HexDigits[(Head(bs) \div 16) + 1], HexDigits[(Head(bs) % 16) + 1]>>
         \o BytesToHex(Tail(bs))

\* bytes.fromhex()
RECURSIVE BytesFromHex(_)
BytesFromHex(h) ==
    IF Len(h) < 2 THEN <<>>
    ELSE <<HexVal(h[1]) * 16 + HexVal(h[2])>> \o BytesFromHex(SubSeq(h, 3, Len(h)))

\* str(n) of a non-negative integer, as its decimal digits
RECURSIVE IntToStr(_)
IntToStr(n) ==
    IF n < 10 THEN <<HexDigits[n + 1]>>
    ELSE IntToStr(n \div 10) \o <<HexDigits[(n % 10) + 1]>>

\* int(c) of a one-digit string
DigitToInt(c) == HexVal(c)

(***************************************************************************)
(* Constants of behaviours.py and the configured parameters.               *)
(***************************************************************************)
ZERO_VALUE == 0
SAFE_GAS == 0
TX_HASH_LENGTH == 66
NATIVE_TRANSFER_VALUE == 1
SafeOperation_CALL == 0
SafeOperation_DELEGATE_CALL == 1
MultiSendOperation_CALL == 0

GNOSIS_CHAIN_ID == "gnosis"
BettingContractId == "valory/betting:0.1.0"
MultiSendContractId == "valory/multisend"
GnosisSafeContractId == "valory/gnosis_safe"

BettingAmounts == 1..MaxBettingAmount

\* self.params: read-only for the run; betting_amount is drawn in Init
ParamsFor(amount) ==
    [betting_contract_address |-> "0xBetting",
     multisend_address |-> "0xMultisend",
     transfer_target_address |-> "0xTarget",
     match_key |-> "match_1",
     betting_amount |-> amount]

\* last_round_transition_timestamp.timestamp(): a float, in half seconds
Timestamps == 0..(2 * MaxTimestamp + 1)

VARIABLES
    params,                 \* self.params
    current_round,          \* the round the coordinator is in
    visited,                \* the rounds entered so far, in order
    synchronized_data,      \* SynchronizedData, written by the coordinator only
    agreed_event,           \* the event DecisionMaking agreed on
    last_round_transition_timestamp,
    behaviour,              \* per agent: the behaviour it executes
    pc,                     \* per agent: the yield it is suspended at
    locals,                 \* per agent: local variables of the generator
    payload,                \* per agent: the payload it submitted
    requests                \* per agent: the requests issued by the behaviour

vars == <<params, current_round, visited, synchronized_data, agreed_event,
          last_round_transition_timestamp, behaviour, pc, locals, payload,
          requests>>

Behaviours == {"DataPullBehaviour", "DecisionMakingBehaviour", "TxPreparationBehaviour"}

\* matching_round with TxPreparationBehaviour's copied from DecisionMakingBehaviour
matching_round_copied(b) ==
    CASE b = "DataPullBehaviour" -> "DataPull"
      [] b = "DecisionMakingBehaviour" -> "DecisionMaking"
      [] b = "TxPreparationBehaviour" -> "DecisionMaking"
      [] OTHER -> "none"

\* matching_round of each behaviour class
matching_round(b) ==
    CASE b = "DataPullBehaviour" -> "DataPull"
      [] b = "DecisionMakingBehaviour" -> "DecisionMaking"
      [] b = "TxPreparationBehaviour" -> "TxPreparation"
      [] OTHER -> "none"

\* the round behaviour starting with another behaviour of its set
initial_behaviour_cls_wrong == "DecisionMakingBehaviour"

\* BettingRoundBehaviour.initial_behaviour_cls
initial_behaviour_cls == "DataPullBehaviour"

\* BaseBehaviour.auto_behaviour_id(): derived from the class, not the agent
auto_behaviour_id(b) ==
    CASE b = "DataPullBehaviour" -> "data_pull_behaviour"
      [] b = "DecisionMakingBehaviour" -> "decision_making_behaviour"
      [] b = "TxPreparationBehaviour" -> "tx_preparation_behaviour"
      [] OTHER -> "none"

InitLocals ==
    [response |-> NoneV,
     betting_ipfs_hash |-> NoneV,
     has_placed_bet |-> NoneV,
     now |-> 0,
     path |-> "none",
     multi_send_txs |-> <<>>,
     safe_args |-> <<>>,
     received |-> <<>>]

InitSynchronizedData ==
    [betting_result |-> NoneV,
     betting_ipfs_hash |-> NoneV,
     has_placed_bet |-> NoneV,
     safe_contract_address |-> "0xSafe",
     tx_hash |-> NoneV,
     tx_submitter |-> NoneV]

Init ==
    /\ params \in {ParamsFor(amount) : amount \in BettingAmounts}
    /\ current_round = matching_round(initial_behaviour_cls)
    /\ visited = <<matching_round(initial_behaviour_cls)>>
    /\ synchronized_data = InitSynchronizedData
    /\ agreed_event = "none"
    /\ last_round_transition_timestamp = 0
    /\ behaviour = [a \in Agents |-> initial_behaviour_cls]
    /\ pc = [a \in Agents |-> "start"]
    /\ locals = [a \in Agents |-> InitLocals]
    /\ payload = [a \in Agents |-> NoneV]
    /\ requests = [a \in Agents |-> <<>>]

\* the behaviour of agent a is running and has not been stopped by a round change
Running(a, b) == behaviour[a] = b /\ current_round = matching_round(b)

Issue(a, req) == requests' = [requests EXCEPT ![a] = Append(@, req)]

Receive(a, resp, l) == [l EXCEPT !.received = Append(@, resp)]

(***************************************************************************)
(* Betting contract wrapper (contract.py).                                 *)
(***************************************************************************)
\* the ABI encoding of one argument, as hex: distinct arguments, distinct words
AbiWord(arg) ==
    CASE arg = "0xTarget" -> <<"0", "a">>
      [] arg = "0xBetting" -> <<"0", "b">>
      [] arg = "0xMultisend" -> <<"0", "c">>
      [] arg = "0xSafe" -> <<"0", "d">>
      [] arg = "match_1" -> <<"e", "1">>
      [] OTHER -> <<"f", "f">>

\* contract_instance.encodeABI("placeBet", args=(bettor, match_key)): "0x" + hex:
\* the selector followed by the encoded arguments
encodeABI_placeBet(bettor, match_key) ==
    <<"0", "x", "a", "b", "1", "2">> \o AbiWord(bettor) \o AbiWord(match_key)

\* Betting.build_place_bet_tx
build_place_bet_tx(bettor, match_key) ==
    [data |-> Bytes(BytesFromHex(StripMarker(encodeABI_placeBet(bettor, match_key))))]

\* Betting.has_placed_bet: the call result under the key "data"
has_placed_bet_call(result) == [data |-> result]

(***************************************************************************)
(* What the external collaborators can answer.                             *)
(***************************************************************************)
\* betting_specs.process_response(raw_response): the parsed object, or None
HttpResponses ==
    {NoneV,
     Dict([result |-> Bool(TRUE)]),
     Dict([result |-> Bool(FALSE)]),
     Dict([result |-> NoneV])}

\* send_to_ipfs: the content hash, or None when the object was not stored
IpfsResponses == {NoneV, Str(<<"Q", "m">>)}

\* contract api responses to has_placed_bet: an error, a body without "data",
\* or the call result; async_act indexes the result with [0], so the result
\* is a sequence whose first element is the flag
HasPlacedBetResponses ==
    {[performative |-> "ERROR", body |-> EmptyDict],
     [performative |-> "RAW_TRANSACTION", body |-> EmptyDict],
     [performative |-> "RAW_TRANSACTION",
      body |-> has_placed_bet_call(List(<<Bool(TRUE)>>))],
     [performative |-> "RAW_TRANSACTION",
      body |-> has_placed_bet_call(List(<<Bool(FALSE)>>))]}

(***************************************************************************)
(* The end of every async_act: send_a2a_transaction, wait_until_round_end, *)
(* set_done.                                                               *)
(***************************************************************************)
\* yield from self.send_a2a_transaction(payload): the payload is sent
send_a2a_transaction(a, p) ==
    /\ payload' = [payload EXCEPT ![a] = p]
    /\ Issue(a, [kind |-> "a2a_transaction", payload |-> p])
    /\ pc' = [pc EXCEPT ![a] = "await_a2a"]

\* an exception leaves async_act: the behaviour submits nothing
Raise(a, exc) ==
    /\ pc' = [pc EXCEPT ![a] = exc]
    /\ UNCHANGED <<payload, requests>>

Raised(a) == pc[a] \in {"TypeError", "KeyError"}

\* send_a2a_transaction returns (the payload was delivered);
\* the behaviour enters wait_until_round_end
A2ADelivered(a, b) ==
    /\ Running(a, b)
    /\ pc[a] = "await_a2a"
    /\ pc' = [pc EXCEPT ![a] = "await_round_end"]
    /\ UNCHANGED <<params, current_round, visited, synchronized_data, agreed_event,
                   last_round_transition_timestamp, behaviour, locals, payload,
                   requests>>

\* set_done() reached without waiting for the end of the round
RoundEnded_without_waiting(a, b) ==
    /\ behaviour[a] = b
    /\ pc[a] = "await_round_end"
    /\ pc' = [pc EXCEPT ![a] = "done"]
    /\ UNCHANGED <<params, current_round, visited, synchronized_data, agreed_event,
                   last_round_transition_timestamp, behaviour, locals, payload,
                   requests>>

\* wait_until_round_end returns once the round has changed; then self.set_done()
RoundEnded(a, b) ==
    /\ behaviour[a] = b
    /\ pc[a] = "await_round_end"
    /\ current_round # matching_round(b)
    /\ pc' = [pc EXCEPT ![a] = "done"]
    /\ UNCHANGED <<params, current_round, visited, synchronized_data, agreed_event,
                   last_round_transition_timestamp, behaviour, locals, payload,
                   requests>>

(***************************************************************************)
(* DataPullBehaviour                                                       *)
(***************************************************************************)
\* async_act starting the storage write without awaiting the oracle response
DataPull_async_act_without_await(a) ==
    /\ Running(a, "DataPullBehaviour")
    /\ pc[a] = "start"
    /\ requests' = [requests EXCEPT ![a] =
                      @ \o <<[kind |-> "http", spec |-> "betting_specs"],
                             [kind |-> "ipfs", obj |-> NoneV, filetype |-> "JSON"]>>]
    /\ pc' = [pc EXCEPT ![a] = "await_http"]
    /\ UNCHANGED <<params, current_round, visited, synchronized_data, agreed_event,
                   last_round_transition_timestamp, behaviour, locals, payload>>

\* async_act up to the first yield: get_betting_result_specs issues the request
DataPull_async_act(a) ==
    /\ Running(a, "DataPullBehaviour")
    /\ pc[a] = "start"
    /\ Issue(a, [kind |-> "http", spec |-> "betting_specs"])
    /\ pc' = [pc EXCEPT ![a] = "await_http"]
    /\ UNCHANGED <<params, current_round, visited, synchronized_data, agreed_event,
                   last_round_transition_timestamp, behaviour, locals, payload>>

\* get_betting_result_specs returns; send_betting_result_to_ipfs issues the write
DataPull_get_betting_result_specs(a) ==
    /\ Running(a, "DataPullBehaviour")
    /\ pc[a] = "await_http"
    /\ \E response \in HttpResponses :
        /\ locals' = [locals EXCEPT ![a] =
                        [Receive(a, response, @) EXCEPT !.response = response]]
        /\ Issue(a, [kind |-> "ipfs", obj |-> response, filetype |-> "JSON"])
    /\ pc' = [pc EXCEPT ![a] = "await_ipfs"]
    /\ UNCHANGED <<params, current_round, visited, synchronized_data, agreed_event,
                   last_round_transition_timestamp, behaviour, payload>>

\* async_act sending the payload without awaiting the has_placed_bet read
DataPull_send_betting_result_to_ipfs_then_submit(a) ==
    /\ Running(a, "DataPullBehaviour")
    /\ pc[a] = "await_ipfs"
    /\ \E h \in IpfsResponses :
        /\ locals' = [locals EXCEPT ![a] =
                        [Receive(a, h, @) EXCEPT !.betting_ipfs_hash = h]]
        /\ LET p == [type |-> "DataPullPayload",
                     sender |-> a,
                     betting_result |-> NoneV,
                     betting_ipfs_hash |-> h,
                     has_placed_bet |-> NoneV] IN
           /\ payload' = [payload EXCEPT ![a] = p]
           /\ requests' = [requests EXCEPT ![a] =
                  @ \o <<[kind |-> "contract",
                          performative |-> "GET_RAW_TRANSACTION",
                          contract_address |-> params.betting_contract_address,
                          contract_id |-> BettingContractId,
                          contract_callable |-> "has_placed_bet",
                          chain_id |-> GNOSIS_CHAIN_ID,
                          bettor |-> params.transfer_target_address,
                          match_key |-> params.match_key],
                         [kind |-> "a2a_transaction", payload |-> p]>>]
    /\ pc' = [pc EXCEPT ![a] = "await_a2a"]
    /\ UNCHANGED <<params, current_round, visited, synchronized_data, agreed_event,
                   last_round_transition_timestamp, behaviour>>

\* send_betting_result_to_ipfs returns; get_has_placed_bet issues the contract read
DataPull_send_betting_result_to_ipfs(a) ==
    /\ Running(a, "DataPullBehaviour")
    /\ pc[a] = "await_ipfs"
    /\ \E h \in IpfsResponses :
        locals' = [locals EXCEPT ![a] =
                     [Receive(a, h, @) EXCEPT !.betting_ipfs_hash = h]]
    /\ Issue(a, [kind |-> "contract",
                 performative |-> "GET_RAW_TRANSACTION",
                 contract_address |-> params.betting_contract_address,
                 contract_id |-> BettingContractId,
                 contract_callable |-> "has_placed_bet",
                 chain_id |-> GNOSIS_CHAIN_ID,
                 bettor |-> params.transfer_target_address,
                 match_key |-> params.match_key])
    /\ pc' = [pc EXCEPT ![a] = "await_has_placed_bet"]
    /\ UNCHANGED <<params, current_round, visited, synchronized_data, agreed_event,
                   last_round_transition_timestamp, behaviour, payload>>

\* get_has_placed_bet: what it returns for a contract api response
get_has_placed_bet(response_msg) ==
    IF response_msg.performative # "RAW_TRANSACTION" THEN NoneV
    ELSE DictGet(response_msg.body, "data")

\* DataPullPayload(sender, response['result'], betting_ipfs_hash, has_placed_bet[0])
DataPullPayload(sender, response, betting_ipfs_hash, has_placed_bet) ==
    [type |-> "DataPullPayload",
     sender |-> sender,
     betting_result |-> response.val.result,
     betting_ipfs_hash |-> betting_ipfs_hash,
     has_placed_bet |-> has_placed_bet.val[1]]

\* get_has_placed_bet returns; the payload is built and sent
DataPull_get_has_placed_bet(a) ==
    /\ Running(a, "DataPullBehaviour")
    /\ pc[a] = "await_has_placed_bet"
    /\ \E response_msg \in HasPlacedBetResponses :
        LET has_placed_bet == get_has_placed_bet(response_msg) IN
        /\ locals' = [locals EXCEPT ![a] =
                        [Receive(a, response_msg, @) EXCEPT !.has_placed_bet = has_placed_bet]]
        /\ IF IsNone(locals[a].response) \/ IsNone(has_placed_bet)
           THEN Raise(a, "TypeError")      \* None['result'], None[0]
           ELSE send_a2a_transaction(a,
                    DataPullPayload(a, locals[a].response,
                                    locals[a].betting_ipfs_hash, has_placed_bet))
    /\ UNCHANGED <<params, current_round, visited, synchronized_data, agreed_event,
                   last_round_transition_timestamp, behaviour>>

DataPull_send_a2a_transaction(a) == A2ADelivered(a, "DataPullBehaviour")

DataPull_wait_until_round_end(a) == RoundEnded(a, "DataPullBehaviour")

(***************************************************************************)
(* DecisionMakingBehaviour                                                 *)
(***************************************************************************)
Event_TRANSACT == "transact"
Event_DONE == "done"

\* get_next_event deciding on betting_result alone
get_next_event_result_only(sd) ==
    IF Truthy(sd.betting_result) THEN Event_TRANSACT ELSE Event_DONE

\* get_next_event: `if betting_result and not has_placed_bet`
get_next_event(sd) ==
    IF Truthy(sd.betting_result) /\ ~Truthy(sd.has_placed_bet)
    THEN Event_TRANSACT
    ELSE Event_DONE

DecisionMakingPayload(sender, event) ==
    [type |-> "DecisionMakingPayload", sender |-> sender, event |-> event]

\* async_act storing its event in the synchronized data itself
DecisionMaking_async_act_writing(a) ==
    /\ Running(a, "DecisionMakingBehaviour")
    /\ pc[a] = "start"
    /\ send_a2a_transaction(a, DecisionMakingPayload(a, get_next_event(synchronized_data)))
    /\ synchronized_data' =
          [synchronized_data EXCEPT !.tx_submitter = Str(<<"d", "m">>)]
    /\ UNCHANGED <<params, current_round, visited, agreed_event,
                   last_round_transition_timestamp, behaviour, locals>>

\* async_act up to its first yield: the event is computed and the payload sent
DecisionMaking_async_act(a) ==
    /\ Running(a, "DecisionMakingBehaviour")
    /\ pc[a] = "start"
    /\ send_a2a_transaction(a, DecisionMakingPayload(a, get_next_event(synchronized_data)))
    /\ UNCHANGED <<params, current_round, visited, synchronized_data, agreed_event,
                   last_round_transition_timestamp, behaviour, locals>>

DecisionMaking_send_a2a_transaction(a) == A2ADelivered(a, "DecisionMakingBehaviour")

DecisionMaking_wait_until_round_end(a) == RoundEnded(a, "DecisionMakingBehaviour")

(***************************************************************************)
(* TxPreparationBehaviour                                                  *)
(***************************************************************************)
\* get_sync_timestamp(): the float timestamp of the last round transition
get_sync_timestamp == last_round_transition_timestamp

\* int(t) of a non-negative float given in half seconds
IntOfTimestamp(t) == t \div 2

\* int(str(now)[-1])
last_number_of(now) == DigitToInt(IntToStr(now)[Len(IntToStr(now))])

\* get_tx_hash with 7 in the list of single-path digits
select_path_with_seven(last_number) ==
    IF last_number \in {0, 1, 2, 3, 4, 5, 6, 7} THEN "single" ELSE "multisend"

\* get_tx_hash: `if last_number in [0, 1, 2, 3, 4, 5, 6]`
select_path(last_number) ==
    IF last_number \in {0, 1, 2, 3, 4, 5, 6} THEN "single" ELSE "multisend"

\* get_native_transfer_data: send 1 wei to the recipient
get_native_transfer_data ==
    [value |-> NATIVE_TRANSFER_VALUE, to_address |-> params.transfer_target_address]

\* the first entry of multi_send_txs: no data key, it is a native transfer
native_transfer_tx ==
    [operation |-> MultiSendOperation_CALL,
     to |-> params.transfer_target_address,
     value |-> get_native_transfer_data.value]

\* the bet-placement entry carrying no value
place_bet_tx_no_value(place_bet_data_hex) ==
    [operation |-> MultiSendOperation_CALL,
     to |-> params.betting_contract_address,
     value |-> ZERO_VALUE,
     data |-> Bytes(BytesFromHex(place_bet_data_hex))]

\* the second entry of multi_send_txs
place_bet_tx(place_bet_data_hex) ==
    [operation |-> MultiSendOperation_CALL,
     to |-> params.betting_contract_address,
     value |-> params.betting_amount,
     data |-> Bytes(BytesFromHex(place_bet_data_hex))]

\* the request of get_place_bet_data
place_bet_data_request_for_safe ==
    [kind |-> "contract",
     performative |-> "GET_RAW_TRANSACTION",
     contract_address |-> params.betting_contract_address,
     contract_id |-> BettingContractId,
     contract_callable |-> "build_place_bet_tx",
     match_key |-> params.match_key,
     bettor |-> synchronized_data.safe_contract_address,
     chain_id |-> GNOSIS_CHAIN_ID]

\* the request of get_place_bet_data to the betting contract
place_bet_data_request ==
    [kind |-> "contract",
     performative |-> "GET_RAW_TRANSACTION",
     contract_address |-> params.betting_contract_address,
     contract_id |-> BettingContractId,
     contract_callable |-> "build_place_bet_tx",
     match_key |-> params.match_key,
     bettor |-> params.transfer_target_address,
     chain_id |-> GNOSIS_CHAIN_ID]

\* the request of get_multisend_safe_tx_hash to the multisend contract
multisend_request(multi_send_txs) ==
    [kind |-> "contract",
     performative |-> "GET_RAW_TRANSACTION",
     contract_address |-> params.multisend_address,
     contract_id |-> MultiSendContractId,
     contract_callable |-> "get_tx_data",
     multi_send_txs |-> multi_send_txs,
     chain_id |-> GNOSIS_CHAIN_ID]

\* the request of _build_safe_tx_hash to the safe contract
safe_tx_hash_request(args) ==
    [kind |-> "contract",
     performative |-> "GET_STATE",
     contract_address |-> synchronized_data.safe_contract_address,
     contract_id |-> GnosisSafeContractId,
     contract_callable |-> "get_raw_safe_transaction_hash",
     to_address |-> args.to_address,
     value |-> args.value,
     data |-> args.data,
     safe_tx_gas |-> SAFE_GAS,
     chain_id |-> GNOSIS_CHAIN_ID,
     operation |-> args.operation]

\* get_place_bet_safe_tx_hash leaving value to its default, ZERO_VALUE
place_bet_safe_args_default_value(data_hex) ==
    [to_address |-> params.betting_contract_address,
     value |-> ZERO_VALUE,
     data |-> Bytes(BytesFromHex(data_hex)),
     operation |-> SafeOperation_CALL]

\* the arguments get_place_bet_safe_tx_hash gives _build_safe_tx_hash
\* (operation is left to its default, SafeOperation.CALL)
place_bet_safe_args(data_hex) ==
    [to_address |-> params.betting_contract_address,
     value |-> params.betting_amount,
     data |-> Bytes(BytesFromHex(data_hex)),
     operation |-> SafeOperation_CALL]

\* get_multisend_safe_tx_hash moving the bet amount from the safe
multisend_safe_args_with_amount(multisend_data) ==
    [to_address |-> params.multisend_address,
     value |-> params.betting_amount,
     data |-> Bytes(BytesFromHex(multisend_data)),
     operation |-> SafeOperation_DELEGATE_CALL]

\* the arguments get_multisend_safe_tx_hash gives _build_safe_tx_hash
multisend_safe_args(multisend_data) ==
    [to_address |-> params.multisend_address,
     value |-> ZERO_VALUE,
     data |-> Bytes(BytesFromHex(multisend_data)),
     operation |-> SafeOperation_DELEGATE_CALL]

\* get_place_bet_data defaulting a missing data key to empty bytes
get_place_bet_data_empty_default(response_msg) ==
    IF response_msg.performative # "RAW_TRANSACTION" THEN NoneV
    ELSE LET data_bytes == DictGet(response_msg.body, "data") IN
         IF IsNone(data_bytes) THEN Str(<<>>)
         ELSE Str(BytesToHex(data_bytes.val))

\* get_place_bet_data: the hex string it returns for a response, or None
get_place_bet_data(response_msg) ==
    IF response_msg.performative # "RAW_TRANSACTION" THEN NoneV
    ELSE LET data_bytes == DictGet(response_msg.body, "data") IN
         IF IsNone(data_bytes) THEN NoneV
         ELSE Str(BytesToHex(data_bytes.val))

\* hash_payload_to_hex: the stripped hash followed by the encoded
\* value, gas, destination, operation and data
hash_payload_to_hex(safe_tx_hash, ether_value, safe_tx_gas, to_address, data, operation) ==
    Str(<<safe_tx_hash, ether_value, safe_tx_gas, to_address, operation,
          BytesToHex(data.val)>>)

\* the length check rejecting only hashes that are too short
invalid_tx_hash_short_only(tx_hash) == IsNone(tx_hash) \/ Len(tx_hash.val) < TX_HASH_LENGTH

\* `tx_hash is None or len(tx_hash) != TX_HASH_LENGTH`
invalid_tx_hash(tx_hash) == IsNone(tx_hash) \/ Len(tx_hash.val) # TX_HASH_LENGTH

\* _build_safe_tx_hash encoding the default operation instead of its argument
build_safe_tx_hash_default_operation(response_msg, args) ==
    IF response_msg.performative # "STATE" THEN NoneV
    ELSE LET tx_hash == DictGet(response_msg.body, "tx_hash") IN
         IF invalid_tx_hash(tx_hash) THEN NoneV
         ELSE hash_payload_to_hex(StripMarker(tx_hash.val), args.value, SAFE_GAS,
                                  args.to_address, args.data, SafeOperation_CALL)

\* _build_safe_tx_hash after its yield: the final hash for a response, or None
build_safe_tx_hash(response_msg, args) ==
    IF response_msg.performative # "STATE" THEN NoneV
    ELSE LET tx_hash == DictGet(response_msg.body, "tx_hash") IN
         IF invalid_tx_hash(tx_hash) THEN NoneV
         ELSE hash_payload_to_hex(StripMarker(tx_hash.val), args.value, SAFE_GAS,
                                  args.to_address, args.data, args.operation)

TxPreparationPayload(sender, tx_submitter, tx_hash) ==
    [type |-> "TxPreparationPayload",
     sender |-> sender,
     tx_submitter |-> tx_submitter,
     tx_hash |-> tx_hash]

\* async_act naming the sending agent as tx_submitter
TxPreparation_submit_by_sender(a, tx_hash) ==
    send_a2a_transaction(a, TxPreparationPayload(a, a, tx_hash))

\* async_act with the value get_tx_hash returned: the payload is built and sent
TxPreparation_submit(a, tx_hash) ==
    send_a2a_transaction(a,
        TxPreparationPayload(a, auto_behaviour_id("TxPreparationBehaviour"), tx_hash))

(***************************************************************************)
(* What the ledger can answer in TxPreparation.                            *)
(***************************************************************************)
PlaceBetDataResponses(req) ==
    {[performative |-> "ERROR", body |-> EmptyDict],
     [performative |-> "RAW_TRANSACTION", body |-> EmptyDict],
     [performative |-> "RAW_TRANSACTION",
      body |-> build_place_bet_tx(req.bettor, req.match_key)]}

\* MultiSendContract.get_tx_data: "0x" and the packed sub-transactions
RECURSIVE encode_multisend(_)
encode_multisend(txs) ==
    IF txs = <<>> THEN <<>>
    ELSE LET tx == Head(txs) IN
         BytesToHex(<<tx.operation, tx.value>>)
         \o (IF "data" \in DOMAIN tx THEN BytesToHex(tx.data.val) ELSE <<>>)
         \o encode_multisend(Tail(txs))

MultisendResponses(req) ==
    {[performative |-> "ERROR", body |-> EmptyDict],
     [performative |-> "RAW_TRANSACTION", body |-> EmptyDict],
     [performative |-> "RAW_TRANSACTION",
      body |-> [data |-> Str(<<"0", "x">> \o encode_multisend(req.multi_send_txs))]]}

\* hashes the safe contract can return: the marker and n hex characters
WalletHashLengths == {0, 63, 64, 65}

WalletHashes ==
    {<<"0", "x">> \o Repeat("a", n) : n \in WalletHashLengths}
    \cup {<<"0", "x">> \o Repeat("b", 64)}

SafeTxHashResponses ==
    {[performative |-> "ERROR", body |-> EmptyDict],
     [performative |-> "STATE", body |-> EmptyDict]}
    \cup {[performative |-> "STATE", body |-> [tx_hash |-> Str(h)]] : h \in WalletHashes}

\* async_act up to the first yield: get_tx_hash selects the path and
\* get_place_bet_data issues its request
TxPreparation_async_act(a) ==
    /\ Running(a, "TxPreparationBehaviour")
    /\ pc[a] = "start"
    /\ LET now == IntOfTimestamp(get_sync_timestamp)
           path == select_path(last_number_of(now)) IN
        locals' = [locals EXCEPT ![a].now = now,
                                 ![a].path = path,
                                 ![a].multi_send_txs =
                                    IF path = "multisend" THEN <<native_transfer_tx>>
                                    ELSE <<>>]
    /\ Issue(a, place_bet_data_request)
    /\ pc' = [pc EXCEPT ![a] = "await_place_bet_data"]
    /\ UNCHANGED <<params, current_round, visited, synchronized_data, agreed_event,
                   last_round_transition_timestamp, behaviour, payload>>

\* get_place_bet_data returns into get_place_bet_safe_tx_hash (single path)
\* or get_multisend_safe_tx_hash (batched path)
TxPreparation_get_place_bet_data(a) ==
    /\ Running(a, "TxPreparationBehaviour")
    /\ pc[a] = "await_place_bet_data"
    /\ \E response_msg \in PlaceBetDataResponses(place_bet_data_request) :
        LET data_hex == get_place_bet_data(response_msg)
            l == Receive(a, response_msg, locals[a]) IN
        IF IsNone(data_hex)
        THEN /\ locals' = [locals EXCEPT ![a] = l]
             /\ TxPreparation_submit(a, NoneV)
        ELSE IF locals[a].path = "single"
        THEN LET args == place_bet_safe_args(data_hex.val) IN
             /\ locals' = [locals EXCEPT ![a] = [l EXCEPT !.safe_args = args]]
             /\ Issue(a, safe_tx_hash_request(args))
             /\ pc' = [pc EXCEPT ![a] = "await_safe_tx_hash"]
             /\ UNCHANGED payload
        ELSE LET txs == Append(locals[a].multi_send_txs, place_bet_tx(data_hex.val)) IN
             /\ locals' = [locals EXCEPT ![a] = [l EXCEPT !.multi_send_txs = txs]]
             /\ Issue(a, multisend_request(txs))
             /\ pc' = [pc EXCEPT ![a] = "await_multisend"]
             /\ UNCHANGED payload
    /\ UNCHANGED <<params, current_round, visited, synchronized_data, agreed_event,
                   last_round_transition_timestamp, behaviour>>

\* the multisend contract answers get_multisend_safe_tx_hash
TxPreparation_get_multisend_safe_tx_hash(a) ==
    /\ Running(a, "TxPreparationBehaviour")
    /\ pc[a] = "await_multisend"
    /\ \E contract_api_msg \in MultisendResponses(multisend_request(locals[a].multi_send_txs)) :
        LET l == Receive(a, contract_api_msg, locals[a]) IN
        IF contract_api_msg.performative # "RAW_TRANSACTION"
        THEN /\ locals' = [locals EXCEPT ![a] = l]
             /\ TxPreparation_submit(a, NoneV)
        ELSE IF "data" \notin DOMAIN contract_api_msg.body
        THEN /\ locals' = [locals EXCEPT ![a] = l]
             /\ Raise(a, "KeyError")        \* raw_transaction.body["data"]
        ELSE LET multisend_data == StripMarker(contract_api_msg.body.data.val)
                 args == multisend_safe_args(multisend_data) IN
             /\ locals' = [locals EXCEPT ![a] = [l EXCEPT !.safe_args = args]]
             /\ Issue(a, safe_tx_hash_request(args))
             /\ pc' = [pc EXCEPT ![a] = "await_safe_tx_hash"]
             /\ UNCHANGED payload
    /\ UNCHANGED <<params, current_round, visited, synchronized_data, agreed_event,
                   last_round_transition_timestamp, behaviour>>

\* the safe contract answers _build_safe_tx_hash; get_tx_hash returns
TxPreparation_build_safe_tx_hash(a) ==
    /\ Running(a, "TxPreparationBehaviour")
    /\ pc[a] = "await_safe_tx_hash"
    /\ \E response_msg \in SafeTxHashResponses :
        /\ locals' = [locals EXCEPT ![a] = Receive(a, response_msg, @)]
        /\ TxPreparation_submit(a, build_safe_tx_hash(response_msg, locals[a].safe_args))
    /\ UNCHANGED <<params, current_round, visited, synchronized_data, agreed_event,
                   last_round_transition_timestamp, behaviour>>

TxPreparation_send_a2a_transaction(a) == A2ADelivered(a, "TxPreparationBehaviour")

TxPreparation_wait_until_round_end(a) == RoundEnded(a, "TxPreparationBehaviour")

(***************************************************************************)
(* The round coordinator and the stage sequencer.                          *)
(***************************************************************************)
\* what the agents agree on: the payload without its sender
Content(p) == [k \in (DOMAIN p) \ {"sender"} |-> p[k]]

Delivered(a) ==
    /\ matching_round(behaviour[a]) = current_round
    /\ pc[a] = "await_round_end"

AllDelivered == \A a \in Agents : Delivered(a)

Agreement ==
    /\ AllDelivered
    /\ \A a, b \in Agents : Content(payload[a]) = Content(payload[b])

AgreedPayload == Content(payload[CHOOSE a \in Agents : TRUE])

\* the transition table of the sequencer: the round that follows `round` on `event`
transition_function(round, event) ==
    CASE round = "DataPull" /\ event = "agreed" -> "DecisionMaking"
      [] round = "DecisionMaking" /\ event = Event_TRANSACT -> "TxPreparation"
      [] round = "DecisionMaking" /\ event = Event_DONE -> "Done"
      [] round = "TxPreparation" /\ event = "agreed" -> "Done"
      [] round = "TxPreparation" /\ event = "error" -> "Failed"
      [] OTHER -> round

TransitionOn(event) ==
    /\ current_round' = transition_function(current_round, event)
    /\ visited' = Append(visited, transition_function(current_round, event))

\* agreement on the DataPull payload: its three fields are committed
DataPullRound_end ==
    /\ current_round = "DataPull"
    /\ Agreement
    /\ synchronized_data' =
          [synchronized_data EXCEPT !.betting_result = AgreedPayload.betting_result,
                                    !.betting_ipfs_hash = AgreedPayload.betting_ipfs_hash,
                                    !.has_placed_bet = AgreedPayload.has_placed_bet]
    /\ TransitionOn("agreed")
    /\ UNCHANGED <<params, agreed_event, last_round_transition_timestamp, behaviour,
                   pc, locals, payload, requests>>

\* agreement on the DecisionMaking payload: the event selects the next round;
\* the timestamp of this transition is the one TxPreparation reads
DecisionMakingRound_end ==
    /\ current_round = "DecisionMaking"
    /\ Agreement
    /\ agreed_event' = AgreedPayload.event
    /\ TransitionOn(AgreedPayload.event)
    /\ \E t \in Timestamps : last_round_transition_timestamp' = t
    /\ UNCHANGED <<params, synchronized_data, behaviour, pc, locals, payload, requests>>

\* agreement on the TxPreparation payload: tx_submitter and tx_hash are committed
TxPreparationRound_end ==
    /\ current_round = "TxPreparation"
    /\ Agreement
    /\ synchronized_data' =
          [synchronized_data EXCEPT !.tx_submitter = Str(AgreedPayload.tx_submitter),
                                    !.tx_hash = AgreedPayload.tx_hash]
    /\ TransitionOn("agreed")
    /\ UNCHANGED <<params, agreed_event, last_round_transition_timestamp, behaviour,
                   pc, locals, payload, requests>>

\* TxPreparation cannot reach agreement: a behaviour raised, or the payloads differ
TxPreparationRound_fail ==
    /\ current_round = "TxPreparation"
    /\ \/ \E a \in Agents : behaviour[a] = "TxPreparationBehaviour" /\ Raised(a)
       \/ AllDelivered /\ ~Agreement
    /\ TransitionOn("error")
    /\ UNCHANGED <<params, synchronized_data, agreed_event,
                   last_round_transition_timestamp, behaviour, pc, locals, payload,
                   requests>>

\* AbstractRoundBehaviour: after set_done the behaviour matching the current
\* round is instantiated and started
ScheduleBehaviour(a) ==
    /\ pc[a] = "done"
    /\ \E b \in Behaviours :
        /\ matching_round(b) = current_round
        /\ behaviour' = [behaviour EXCEPT ![a] = b]
    /\ pc' = [pc EXCEPT ![a] = "start"]
    /\ locals' = [locals EXCEPT ![a] = InitLocals]
    /\ payload' = [payload EXCEPT ![a] = NoneV]
    /\ requests' = [requests EXCEPT ![a] = <<>>]
    /\ UNCHANGED <<params, current_round, visited, synchronized_data, agreed_event,
                   last_round_transition_timestamp>>

AgentStep(a) ==
    \/ DataPull_async_act(a)
    \/ DataPull_get_betting_result_specs(a)
    \/ DataPull_send_betting_result_to_ipfs(a)
    \/ DataPull_get_has_placed_bet(a)
    \/ DataPull_send_a2a_transaction(a)
    \/ DataPull_wait_until_round_end(a)
    \/ DecisionMaking_async_act(a)
    \/ DecisionMaking_send_a2a_transaction(a)
    \/ DecisionMaking_wait_until_round_end(a)
    \/ TxPreparation_async_act(a)
    \/ TxPreparation_get_place_bet_data(a)
    \/ TxPreparation_get_multisend_safe_tx_hash(a)
    \/ TxPreparation_build_safe_tx_hash(a)
    \/ TxPreparation_send_a2a_transaction(a)
    \/ TxPreparation_wait_until_round_end(a)
    \/ ScheduleBehaviour(a)

Next ==
    \/ \E a \in Agents : AgentStep(a)
    \/ DataPullRound_end
    \/ DecisionMakingRound_end
    \/ TxPreparationRound_end
    \/ TxPreparationRound_fail

Spec == Init /\ [][Next]_vars

\* The run of one configuration, for the progress of the run: the betting
\* amount does not enter the control flow.
InitLive ==
    /\ Init
    /\ params = ParamsFor(MaxBettingAmount)

\* Scheduling: the agents and the coordinator do not halt while a step can be
\* taken (an awaited operation that can complete eventually does, a round whose
\* payloads agree is eventually ended).
Fairness == WF_vars(Next)

SpecLive == InitLive /\ [][Next]_vars /\ Fairness

(***************************************************************************)
(* DecisionMaking on every value SynchronizedData can hold for its inputs  *)
(* (Optional[bool] each): the round is entered with the inputs drawn from  *)
(* {None, True, False} and the DecisionMaking behaviour and round run.     *)
(***************************************************************************)
OptionalBools == {NoneV, Bool(TRUE), Bool(FALSE)}

InitDecision ==
    /\ params \in {ParamsFor(amount) : amount \in BettingAmounts}
    /\ current_round = "DecisionMaking"
    /\ visited = <<"DataPull", "DecisionMaking">>
    /\ \E br \in OptionalBools, hpb \in OptionalBools, h \in IpfsResponses :
        synchronized_data = [InitSynchronizedData EXCEPT !.betting_result = br,
                                                         !.has_placed_bet = hpb,
                                                         !.betting_ipfs_hash = h]
    /\ agreed_event = "none"
    /\ last_round_transition_timestamp = 0
    /\ behaviour = [a \in Agents |-> "DecisionMakingBehaviour"]
    /\ pc = [a \in Agents |-> "start"]
    /\ locals = [a \in Agents |-> InitLocals]
    /\ payload = [a \in Agents |-> NoneV]
    /\ requests = [a \in Agents |-> <<>>]

NextDecision ==
    \/ \E a \in Agents :
        \/ DecisionMaking_async_act(a)
        \/ DecisionMaking_send_a2a_transaction(a)
        \/ DecisionMaking_wait_until_round_end(a)
    \/ DecisionMakingRound_end

SpecDecision == InitDecision /\ [][NextDecision]_vars

(***************************************************************************)
(* Properties                                                              *)
(***************************************************************************)
Last(seq) == seq[Len(seq)]

SubmittedBy(a, type) == payload[a].type = type

InTxPreparation(a) == behaviour[a] = "TxPreparationBehaviour"

\* the requests agent a issued to `callable`
RequestsTo(a, callable) ==
    {i \in 1..Len(requests[a]) :
        /\ requests[a][i].kind = "contract"
        /\ requests[a][i].contract_callable = callable}

\* C1: for each of the four boolean (betting_result, has_placed_bet) read from
\* SynchronizedData, the event of the DecisionMaking payload is TRANSACT iff
\* betting_result is true and has_placed_bet is false, and DONE otherwise.
C1_DecisionTotality ==
    \A a \in Agents :
        (/\ SubmittedBy(a, "DecisionMakingPayload")
         /\ synchronized_data.betting_result.type = "bool"
         /\ synchronized_data.has_placed_bet.type = "bool")
        => /\ payload[a].event \in {Event_TRANSACT, Event_DONE}
           /\ payload[a].event = Event_TRANSACT
                <=> (/\ synchronized_data.betting_result.val
                     /\ ~synchronized_data.has_placed_bet.val)

C1_Witness ==
    \E a, b \in Agents :
        /\ SubmittedBy(a, "DecisionMakingPayload")
        /\ SubmittedBy(b, "DecisionMakingPayload")
        /\ a # b
        /\ synchronized_data.betting_result = Bool(TRUE)
        /\ synchronized_data.has_placed_bet = Bool(FALSE)
        /\ payload[a].event = Event_TRANSACT

PathChosen(a) == InTxPreparation(a) /\ pc[a] # "start"

C3_SelectorPartition ==
    \A a \in Agents :
        PathChosen(a)
        => LET t == IntOfTimestamp(last_round_transition_timestamp) IN
           /\ locals[a].now = t
           /\ locals[a].path \in {"single", "multisend"}
           /\ locals[a].path = "single" <=> (t % 10) \in 0..6
           /\ locals[a].path = "multisend" <=> (t % 10) \in 7..9
           /\ locals[a].path = "single" => RequestsTo(a, "get_tx_data") = {}
           /\ locals[a].path = "multisend"
                => /\ Len(locals[a].multi_send_txs) >= 1
                   /\ \A i \in RequestsTo(a, "get_raw_safe_transaction_hash") :
                        RequestsTo(a, "get_tx_data") # {}

C3_Witness ==
    \E a, b \in Agents :
        /\ a # b
        /\ PathChosen(a)
        /\ PathChosen(b)
        /\ locals[a].path = "multisend"
        /\ locals[a].now > 10
        /\ locals[a].now % 10 = 7
        /\ RequestsTo(a, "get_tx_data") # {}

\* C4: in _build_safe_tx_hash, a wallet hash whose length after stripping the
\* 2-character marker is not 64 produces no transaction hash (the payload carries
\* None, never a truncated or padded hash); a stripped length of exactly 64
\* produces the final hash, which carries the stripped hash unchanged.
WalletAnswered(a) ==
    /\ InTxPreparation(a)
    /\ SubmittedBy(a, "TxPreparationPayload")
    /\ Len(locals[a].received) > 0
    /\ Last(locals[a].received).performative = "STATE"
    /\ "tx_hash" \in DOMAIN Last(locals[a].received).body

WalletHash(a) == Last(locals[a].received).body.tx_hash.val

C4_HashLength ==
    \A a \in Agents :
        WalletAnswered(a)
        => IF Len(StripMarker(WalletHash(a))) # 64
           THEN IsNone(payload[a].tx_hash)
           ELSE /\ ~IsNone(payload[a].tx_hash)
                /\ payload[a].tx_hash.val[1] = StripMarker(WalletHash(a))
                /\ Len(payload[a].tx_hash.val[1]) = 64

C4_Witness ==
    \E a, b \in Agents :
        /\ WalletAnswered(a)
        /\ WalletAnswered(b)
        /\ Len(StripMarker(WalletHash(a))) = 65
        /\ IsNone(payload[a].tx_hash)
        /\ Len(StripMarker(WalletHash(b))) = 64
        /\ ~IsNone(payload[b].tx_hash)

\* C5: whenever the multisend pack request is issued, its list has exactly two
\* entries in this order: the native transfer to the configured recipient with
\* the fixed minimal value and no call data, then the bet-placement call to the
\* betting contract with the configured bet amount as value.
PlaceBetCallData ==
    Bytes(BytesFromHex(StripMarker(
        encodeABI_placeBet(params.transfer_target_address, params.match_key))))

C5_BatchComposition ==
    \A a \in Agents :
        \A i \in RequestsTo(a, "get_tx_data") :
            LET txs == requests[a][i].multi_send_txs IN
            /\ locals[a].path = "multisend"
            /\ Len(txs) = 2
            /\ DOMAIN txs[1] = {"operation", "to", "value"}
            /\ txs[1].to = params.transfer_target_address
            /\ txs[1].value = 1
            /\ txs[1].operation = MultiSendOperation_CALL
            /\ DOMAIN txs[2] = {"operation", "to", "value", "data"}
            /\ txs[2].to = params.betting_contract_address
            /\ txs[2].value = params.betting_amount
            /\ txs[2].operation = MultiSendOperation_CALL
            /\ txs[2].data = PlaceBetCallData

C5_Witness ==
    \E a \in Agents :
        /\ RequestsTo(a, "get_tx_data") # {}
        /\ params.betting_amount = MaxBettingAmount
        /\ pc[a] = "await_multisend"

\* C6: on the batched path every wallet signature-hash request has destination
\* = multisend contract address, value = 0 and operation = delegate-call,
\* whatever the configured bet amount.
C6_BatchedWalletRequest ==
    \A a \in Agents :
        (InTxPreparation(a) /\ locals[a].path = "multisend")
        => \A i \in RequestsTo(a, "get_raw_safe_transaction_hash") :
            /\ requests[a][i].to_address = params.multisend_address
            /\ requests[a][i].value = 0
            /\ requests[a][i].operation = SafeOperation_DELEGATE_CALL
            /\ requests[a][i].performative = "GET_STATE"
            /\ requests[a][i].contract_address = synchronized_data.safe_contract_address

C6_Witness ==
    \E a \in Agents :
        /\ InTxPreparation(a)
        /\ locals[a].path = "multisend"
        /\ RequestsTo(a, "get_raw_safe_transaction_hash") # {}
        /\ params.betting_amount = MaxBettingAmount

\* C7: on the single-tx path, when the bet-placement call data is available the
\* wallet signature-hash request is made with destination = betting contract
\* address, value = configured bet amount, data = the encoded placement call,
\* gas = 0 and operation = plain call; and when the wallet returns a well-formed
\* hash the submitted payload carries a non-null tx_hash.
OnSinglePath(a) == InTxPreparation(a) /\ locals[a].path = "single"

PlaceBetDataAvailable(a) ==
    /\ Len(locals[a].received) >= 1
    /\ locals[a].received[1].performative = "RAW_TRANSACTION"
    /\ "data" \in DOMAIN locals[a].received[1].body

WellFormedWalletHash(a) ==
    /\ WalletAnswered(a)
    /\ Len(WalletHash(a)) = 66

C7_SingleWalletRequest ==
    \A a \in Agents :
        OnSinglePath(a)
        => /\ \A i \in RequestsTo(a, "get_raw_safe_transaction_hash") :
                /\ requests[a][i].to_address = params.betting_contract_address
                /\ requests[a][i].value = params.betting_amount
                /\ requests[a][i].data = PlaceBetCallData
                /\ requests[a][i].safe_tx_gas = 0
                /\ requests[a][i].operation = SafeOperation_CALL
                /\ requests[a][i].performative = "GET_STATE"
           /\ PlaceBetDataAvailable(a)
                => Cardinality(RequestsTo(a, "get_raw_safe_transaction_hash")) = 1
           /\ WellFormedWalletHash(a) => ~IsNone(payload[a].tx_hash)

C7_Witness ==
    \E a \in Agents :
        /\ OnSinglePath(a)
        /\ locals[a].now % 10 = 3
        /\ synchronized_data.betting_result = Bool(TRUE)
        /\ synchronized_data.has_placed_bet = Bool(FALSE)
        /\ PlaceBetDataAvailable(a)
        /\ WellFormedWalletHash(a)
        /\ params.betting_amount = MaxBettingAmount
        /\ ~IsNone(payload[a].tx_hash)

\* C8: two executions of TxPreparation that start from the same SynchronizedData,
\* parameters and synchronized timestamp and receive the same ledger responses
\* submit the same tx_hash and tx_submitter; the agent address does not
\* influence them.
BothSubmittedTx ==
    \A a \in Agents : InTxPreparation(a) /\ SubmittedBy(a, "TxPreparationPayload")

C8_Determinism ==
    \A a, b \in Agents :
        (/\ BothSubmittedTx
         /\ locals[a].received = locals[b].received)
        => /\ payload[a].tx_hash = payload[b].tx_hash
           /\ payload[a].tx_submitter = payload[b].tx_submitter

C8_Witness ==
    \E a, b \in Agents :
        /\ a # b
        /\ BothSubmittedTx
        /\ locals[a].received = locals[b].received
        /\ payload[a].sender # payload[b].sender
        /\ ~IsNone(payload[a].tx_hash)
        /\ payload[a].tx_hash = payload[b].tx_hash

\* C9: TxPreparation is entered only after the agreed DecisionMaking event is
\* TRANSACT; when the agreed event is DONE, TxPreparation is never entered and
\* tx_hash and tx_submitter are absent from SynchronizedData, also at the end.
InSeq(x, seq) == \E i \in 1..Len(seq) : seq[i] = x

C9_TxPreparationOnlyOnTransact ==
    /\ (current_round = "TxPreparation" \/ InSeq("TxPreparation", visited))
          => agreed_event = Event_TRANSACT
    /\ \A a \in Agents : InTxPreparation(a) => agreed_event = Event_TRANSACT
    /\ agreed_event = Event_DONE
          => /\ ~InSeq("TxPreparation", visited)
             /\ current_round = "Done"
             /\ IsNone(synchronized_data.tx_hash)
             /\ IsNone(synchronized_data.tx_submitter)
             /\ \A a \in Agents : ~SubmittedBy(a, "TxPreparationPayload")

C9_Witness ==
    /\ agreed_event = Event_DONE
    /\ current_round = "Done"
    /\ synchronized_data.betting_result = Bool(FALSE)
    /\ synchronized_data.has_placed_bet = Bool(FALSE)
    /\ \A a \in Agents : pc[a] = "done"

\* C10: the sequencer starts in DataPull; its only transitions are
\* DataPull -> DecisionMaking, DecisionMaking -> TxPreparation (TRANSACT),
\* DecisionMaking -> Done (DONE), TxPreparation -> Done and
\* TxPreparation -> Failed; Done and Failed have no outgoing transition and no
\* stage is skipped or revisited.
AllowedTransitions ==
    {<<"DataPull", "DecisionMaking">>,
     <<"DecisionMaking", "TxPreparation">>,
     <<"DecisionMaking", "Done">>,
     <<"TxPreparation", "Done">>,
     <<"TxPreparation", "Failed">>}

C10_SequencerTransitions ==
    /\ Len(visited) >= 1
    /\ visited[1] = "DataPull"
    /\ current_round = Last(visited)
    /\ \A i \in 1..(Len(visited) - 1) : <<visited[i], visited[i + 1]>> \in AllowedTransitions
    /\ \A i, j \in 1..Len(visited) : i # j => visited[i] # visited[j]
    /\ \A i \in 1..(Len(visited) - 1) :
        /\ (visited[i] = "DecisionMaking" /\ visited[i + 1] = "TxPreparation")
              => agreed_event = Event_TRANSACT
        /\ (visited[i] = "DecisionMaking" /\ visited[i + 1] = "Done")
              => agreed_event = Event_DONE
    /\ \A a \in Agents :
        matching_round(behaviour[a]) \in {visited[i] : i \in 1..Len(visited)}

C10_Witness ==
    /\ visited = <<"DataPull", "DecisionMaking", "TxPreparation", "Failed">>
    /\ current_round = "Failed"


\* C11: no agent leaves a stage or starts the next one before the agreement on
\* that stage's payload is committed: a behaviour is marked done only after its
\* payload was submitted and wait_until_round_end returned, and then (unless the
\* round failed) the committed values are those of its payload.
PayloadTypeOf(b) ==
    CASE b = "DataPullBehaviour" -> "DataPullPayload"
      [] b = "DecisionMakingBehaviour" -> "DecisionMakingPayload"
      [] b = "TxPreparationBehaviour" -> "TxPreparationPayload"

Committed(a) ==
    CASE behaviour[a] = "DataPullBehaviour" ->
            /\ synchronized_data.betting_result = payload[a].betting_result
            /\ synchronized_data.betting_ipfs_hash = payload[a].betting_ipfs_hash
            /\ synchronized_data.has_placed_bet = payload[a].has_placed_bet
      [] behaviour[a] = "DecisionMakingBehaviour" ->
            agreed_event = payload[a].event
      [] behaviour[a] = "TxPreparationBehaviour" ->
            current_round = "Done"
            => /\ synchronized_data.tx_hash = payload[a].tx_hash
               /\ synchronized_data.tx_submitter = Str(payload[a].tx_submitter)

C11_DoneOnlyAfterAgreement ==
    \A a \in Agents :
        /\ pc[a] = "done"
            => /\ SubmittedBy(a, PayloadTypeOf(behaviour[a]))
               /\ Len(requests[a]) > 0
               /\ Last(requests[a]).kind = "a2a_transaction"
               /\ Last(requests[a]).payload = payload[a]
               /\ current_round # matching_round(behaviour[a])
               /\ Committed(a)
        /\ behaviour[a] # "DataPullBehaviour"
            => /\ InSeq("DecisionMaking", visited)
               /\ ~IsNone(synchronized_data.has_placed_bet)
        /\ behaviour[a] = "TxPreparationBehaviour" => agreed_event = Event_TRANSACT

C11_Witness ==
    \E a, b \in Agents :
        /\ pc[a] = "done"
        /\ behaviour[a] = "DataPullBehaviour"
        /\ behaviour[b] = "DecisionMakingBehaviour"
        /\ pc[b] = "await_round_end"


\* C12: every SynchronizedData field is written at most once, by the agreed
\* payload of exactly one stage (betting_result, betting_ipfs_hash and
\* has_placed_bet by DataPull, tx_hash and tx_submitter by TxPreparation), and
\* DecisionMaking reads betting_result and has_placed_bet only after DataPull's
\* agreement was committed.
DataPullFields == {"betting_result", "betting_ipfs_hash", "has_placed_bet"}

TxPreparationFields == {"tx_hash", "tx_submitter"}

Changed(fields) == \E f \in fields : synchronized_data'[f] # synchronized_data[f]

WrittenBy(round, fields) ==
    /\ current_round = round
    /\ current_round' # round
    /\ ~InSeq(current_round', visited)
    /\ Agreement
    /\ \A f \in fields : IsNone(synchronized_data[f])
    /\ \A f \in (DOMAIN synchronized_data) \ fields :
          synchronized_data'[f] = synchronized_data[f]

C12_FieldsWrittenOnce ==
    [][/\ Changed(DataPullFields)
          => /\ WrittenBy("DataPull", DataPullFields)
             /\ \A f \in DataPullFields : synchronized_data'[f] = AgreedPayload[f]
       /\ Changed(TxPreparationFields)
          => /\ WrittenBy("TxPreparation", TxPreparationFields)
             /\ synchronized_data'.tx_hash = AgreedPayload.tx_hash
             /\ synchronized_data'.tx_submitter = Str(AgreedPayload.tx_submitter)
       /\ Changed({"safe_contract_address"}) => FALSE
       /\ \A a \in Agents :
            SubmittedBy(a, "DecisionMakingPayload")'
            => /\ InSeq("DataPull", visited)
               /\ InSeq("DecisionMaking", visited)
      ]_vars

C12_Witness ==
    /\ current_round = "Done"
    /\ InSeq("TxPreparation", visited)
    /\ ~IsNone(synchronized_data.tx_hash)
    /\ ~IsNone(synchronized_data.tx_submitter)
    /\ synchronized_data.betting_result = Bool(TRUE)
    /\ synchronized_data.has_placed_bet = Bool(FALSE)


\* C13: in DataPull, when the has_placed_bet read answers with another
\* performative or its body has no data key, the sub-step returns no result and
\* the stage still builds and submits its payload (has_placed_bet null) and
\* reaches the wait for agreement; it does not raise.
InDataPull(a) == behaviour[a] = "DataPullBehaviour"

HasPlacedBetAnswered(a) == InDataPull(a) /\ Len(locals[a].received) = 3

HasPlacedBetFailed(a) ==
    /\ HasPlacedBetAnswered(a)
    /\ \/ locals[a].received[3].performative # "RAW_TRANSACTION"
       \/ "data" \notin DOMAIN locals[a].received[3].body

C13_HasPlacedBetFailureSubmits ==
    \A a \in Agents :
        (HasPlacedBetFailed(a) /\ ~IsNone(locals[a].response))
        => /\ IsNone(locals[a].has_placed_bet)
           /\ ~Raised(a)
           /\ SubmittedBy(a, "DataPullPayload")
           /\ IsNone(payload[a].has_placed_bet)
           /\ pc[a] \in {"await_a2a", "await_round_end", "done"}

\* C14: in DataPull, when the oracle fetch yields no parsed result, the
\* betting_result of the payload is null and the stage still performs the
\* remaining steps and submits a best-effort payload; it does not abort.
OracleFailed(a) ==
    /\ InDataPull(a)
    /\ Len(locals[a].received) >= 1
    /\ IsNone(locals[a].received[1])

C14_OracleFailureSubmits ==
    \A a \in Agents :
        OracleFailed(a)
        => /\ RequestsTo(a, "has_placed_bet") # {} \/ pc[a] = "await_ipfs"
           /\ (HasPlacedBetAnswered(a) /\ ~HasPlacedBetFailed(a))
                => /\ ~Raised(a)
                   /\ SubmittedBy(a, "DataPullPayload")
                   /\ IsNone(payload[a].betting_result)


\* C15: in DataPull, when the storage write fails the stage continues: the
\* has_placed_bet read is still issued and a payload is submitted whose
\* betting_ipfs_hash is null, with betting_result and has_placed_bet the values
\* the oracle and the contract read gave.
StorageFailed(a) ==
    /\ InDataPull(a)
    /\ Len(locals[a].received) >= 2
    /\ IsNone(locals[a].received[2])

C15_StorageFailureSubmits ==
    \A a \in Agents :
        StorageFailed(a)
        => /\ Cardinality(RequestsTo(a, "has_placed_bet")) = 1
           /\ HasPlacedBetAnswered(a)
                => /\ ~Raised(a)
                   /\ SubmittedBy(a, "DataPullPayload")
                   /\ IsNone(payload[a].betting_ipfs_hash)
                   /\ payload[a].betting_result = DictGet(locals[a].received[1].val, "result")
                   /\ IsNone(locals[a].has_placed_bet) = IsNone(payload[a].has_placed_bet)


\* C16: in TxPreparation, for each ledger interaction (bet-placement call data,
\* multisend packing, wallet signature-hash), a response with the wrong
\* performative or without the expected body key makes the sub-step return null
\* and the stage still submits a payload whose tx_hash is null; nothing raises.
ExpectedOf(callable) ==
    CASE callable = "build_place_bet_tx" -> [performative |-> "RAW_TRANSACTION", key |-> "data"]
      [] callable = "get_tx_data" -> [performative |-> "RAW_TRANSACTION", key |-> "data"]
      [] callable = "get_raw_safe_transaction_hash" -> [performative |-> "STATE", key |-> "tx_hash"]

\* the i-th response agent a received answers its i-th request
FailedResponse(a, i) ==
    LET expected == ExpectedOf(requests[a][i].contract_callable) IN
    \/ locals[a].received[i].performative # expected.performative
    \/ expected.key \notin DOMAIN locals[a].received[i].body

C16_LedgerFailureSubmitsNull ==
    \A a \in Agents :
        InTxPreparation(a)
        => /\ ~Raised(a)
           /\ \A i \in 1..Len(locals[a].received) :
                FailedResponse(a, i)
                => /\ SubmittedBy(a, "TxPreparationPayload")
                   /\ IsNone(payload[a].tx_hash)
                   /\ i = Len(locals[a].received)


\* C17: no step of DataPull, DecisionMaking or TxPreparation changes
\* SynchronizedData: every step of an agent leaves SynchronizedData (and the
\* parameters and the round) as they are and puts out only requests and its
\* payload; SynchronizedData changes only in a commit of the coordinator.
AgentStepTaken ==
    \/ pc' # pc
    \/ locals' # locals
    \/ payload' # payload
    \/ requests' # requests
    \/ behaviour' # behaviour

CoordinatorCommit ==
    /\ Agreement
    /\ current_round' # current_round
    /\ UNCHANGED <<pc, locals, payload, requests, behaviour>>

C17_StagesDoNotWriteSynchronizedData ==
    [][/\ AgentStepTaken
          => UNCHANGED <<synchronized_data, params, current_round, visited,
                         agreed_event, last_round_transition_timestamp>>
       /\ synchronized_data' # synchronized_data => CoordinatorCommit
      ]_vars

C17_Witness ==
    \E a, b \in Agents :
        /\ a # b
        /\ SubmittedBy(a, "TxPreparationPayload")
        /\ ~IsNone(payload[a].tx_hash)
        /\ SubmittedBy(b, "TxPreparationPayload")
        /\ current_round = "TxPreparation"
        /\ IsNone(synchronized_data.tx_hash)
        /\ IsNone(synchronized_data.tx_submitter)


\* C18: within one agent, DataPull's steps occur strictly in this order, each
\* starting only after the awaited result of the previous one has arrived:
\* oracle fetch, storage write, has_placed_bet read, payload submission, wait
\* for agreement, mark done.
RequestName(req) == IF req.kind = "contract" THEN req.contract_callable ELSE req.kind

DataPullOrder == <<"http", "ipfs", "has_placed_bet", "a2a_transaction">>

C18_DataPullOrder ==
    \A a \in Agents :
        InDataPull(a)
        => /\ Len(requests[a]) <= Len(DataPullOrder)
           /\ \A i \in 1..Len(requests[a]) : RequestName(requests[a][i]) = DataPullOrder[i]
           \* a step starts only after the result of the previous one arrived
           /\ \A i \in 2..Len(requests[a]) : Len(locals[a].received) >= i - 1
           /\ Len(locals[a].received) <= 3
           /\ Len(locals[a].received) <= Len(requests[a])
           \* the storage write stores what the oracle fetch returned
           /\ Len(requests[a]) >= 2 => requests[a][2].obj = locals[a].received[1]
           \* submission, then the wait for agreement, then done
           /\ pc[a] = "await_a2a"
                => /\ Len(requests[a]) = 4
                   /\ current_round = "DataPull"
           /\ pc[a] \in {"await_round_end", "done"} => Len(requests[a]) = 4
           /\ pc[a] = "done" => current_round # "DataPull"
           /\ SubmittedBy(a, "DataPullPayload") <=> Len(requests[a]) = 4
           /\ pc[a] = "start" <=> Len(requests[a]) = 0

C18_Witness ==
    \E a, b \in Agents :
        /\ InDataPull(a)
        /\ pc[a] = "done"
        /\ Len(requests[a]) = 4
        /\ Len(locals[a].received) = 3
        /\ InDataPull(b)
        /\ pc[b] = "await_round_end"


\* C19: in TxPreparation the ledger requests are issued in a fixed order and a
\* failed sub-step stops the chain: single path, the wallet request only after
\* call data was obtained; batched path, the pack request only after call data
\* was obtained and the wallet request only after the pack request succeeded;
\* after a failed sub-step no further ledger request is issued.
LedgerRequests(a) == {i \in 1..Len(requests[a]) : requests[a][i].kind = "contract"}

LedgerOrder(path) ==
    IF path = "single"
    THEN <<"build_place_bet_tx", "get_raw_safe_transaction_hash">>
    ELSE <<"build_place_bet_tx", "get_tx_data", "get_raw_safe_transaction_hash">>

C19_LedgerRequestChain ==
    \A a \in Agents :
        PathChosen(a)
        => /\ \A i \in LedgerRequests(a) :
                /\ i <= Len(LedgerOrder(locals[a].path))
                /\ requests[a][i].contract_callable = LedgerOrder(locals[a].path)[i]
                /\ \A j \in 1..(i - 1) : j \in LedgerRequests(a)
                \* issued only after the previous sub-step succeeded
                /\ i >= 2 => /\ Len(locals[a].received) >= i - 1
                             /\ ~FailedResponse(a, i - 1)
           /\ Len(locals[a].received) <= Cardinality(LedgerRequests(a))
           \* a failed sub-step is the last ledger interaction
           /\ \A i \in 1..Len(locals[a].received) :
                FailedResponse(a, i)
                => /\ i = Cardinality(LedgerRequests(a))
                   /\ i = Len(locals[a].received)

C19_Witness ==
    \E a, b \in Agents :
        /\ a # b
        /\ PathChosen(a)
        /\ PathChosen(b)
        /\ locals[a].path = "multisend"
        /\ Cardinality(LedgerRequests(a)) = 3
        /\ Len(locals[a].received) = 3
        /\ Len(locals[b].received) = 2
        /\ FailedResponse(b, 2)
        /\ locals[b].received[2].performative = "ERROR"
        /\ Cardinality(LedgerRequests(b)) = 2
        /\ SubmittedBy(b, "TxPreparationPayload")


\* C20: whenever _build_safe_tx_hash produces a final transaction hash, the
\* value, destination, data and operation encoded with the stripped wallet
\* hash are exactly those sent in the wallet request of the same execution,
\* and gas is 0 in the request and in the encoding.
ProducedHash(a) ==
    /\ InTxPreparation(a)
    /\ SubmittedBy(a, "TxPreparationPayload")
    /\ ~IsNone(payload[a].tx_hash)

C20_EncodingMatchesWalletRequest ==
    \A a \in Agents :
        ProducedHash(a)
        => /\ Cardinality(RequestsTo(a, "get_raw_safe_transaction_hash")) = 1
           /\ \A i \in RequestsTo(a, "get_raw_safe_transaction_hash") :
                LET req == requests[a][i]
                    encoded == payload[a].tx_hash.val IN
                /\ i = Len(locals[a].received)
                /\ Len(encoded) = 6
                /\ <<"0", "x">> \o encoded[1] = locals[a].received[i].body.tx_hash.val
                /\ encoded[2] = req.value
                /\ encoded[3] = 0
                /\ req.safe_tx_gas = 0
                /\ encoded[4] = req.to_address
                /\ encoded[5] = req.operation
                /\ encoded[6] = BytesToHex(req.data.val)

C20_Witness ==
    \E a, b \in Agents :
        /\ a # b
        /\ ProducedHash(a)
        /\ ProducedHash(b)
        /\ locals[a].path = "multisend"
        /\ payload[a].tx_hash.val[5] = SafeOperation_DELEGATE_CALL
        /\ payload[a].tx_hash.val[2] = ZERO_VALUE
        /\ payload[a].tx_hash.val[6] # <<>>
        /\ payload[b].tx_hash.val[1] # payload[a].tx_hash.val[1]


\* C21: the (bettor, match key) pair DataPull reads with hasPlacedBet is the
\* pair TxPreparation encodes into the bet-placement call on both paths, the
\* betting contract address DataPull queried is the destination of that call,
\* and the parameters never change between the stages.
\* the targets a stage can name: the configured one, and the safe as bettor
BetTargets ==
    {[contract_address |-> "0xBetting", bettor |-> b, match_key |-> "match_1"] :
        b \in {"0xTarget", "0xSafe"}}

\* what a stage asked the betting contract about
AskedAbout(req) ==
    [contract_address |-> req.contract_address,
     bettor |-> req.bettor,
     match_key |-> req.match_key]

\* some replica read the bet-placement status of t in DataPull
StatusRead(t) ==
    \E a \in Agents :
        /\ InDataPull(a)
        /\ \E i \in RequestsTo(a, "has_placed_bet") : AskedAbout(requests[a][i]) = t

\* the bet-placement calls a replica has prepared: destination and call data
PreparedBetCalls(a) ==
    IF locals[a].path = "single"
    THEN {[to |-> requests[a][i].to_address, data |-> requests[a][i].data] :
            i \in RequestsTo(a, "get_raw_safe_transaction_hash")}
    ELSE {[to |-> locals[a].multi_send_txs[2].to, data |-> locals[a].multi_send_txs[2].data] :
            i \in {2} \cap (1..Len(locals[a].multi_send_txs))}
         \cup {[to |-> requests[a][i].multi_send_txs[2].to,
                data |-> requests[a][i].multi_send_txs[2].data] :
                  i \in RequestsTo(a, "get_tx_data")}

\* every bet-placement call of TxPreparation is for t
BetPlacedFor(t) ==
    \A a \in Agents :
        PathChosen(a)
        => /\ \A i \in RequestsTo(a, "build_place_bet_tx") : AskedAbout(requests[a][i]) = t
           /\ \A call \in PreparedBetCalls(a) :
                /\ call.to = t.contract_address
                /\ call.data = build_place_bet_tx(t.bettor, t.match_key).data

StatusReadsInTargets ==
    \A a \in Agents :
        \A i \in RequestsTo(a, "has_placed_bet") : AskedAbout(requests[a][i]) \in BetTargets

C21_SameBetTargetAcrossStages ==
    /\ []StatusReadsInTargets
    /\ \A t \in BetTargets : [](StatusRead(t) => []BetPlacedFor(t))
    /\ [][params' = params]_vars

C21_Witness ==
    \E a, b \in Agents :
        /\ a # b
        /\ PathChosen(a)
        /\ PathChosen(b)
        /\ locals[a].path = "multisend"
        /\ RequestsTo(a, "get_tx_data") # {}
        /\ PreparedBetCalls(a) # {}
        /\ RequestsTo(b, "build_place_bet_tx") # {}
        /\ "DataPull" \in {visited[i] : i \in 1..Len(visited)}


\* C22: in one execution of a stage a replica submits at most one payload,
\* only after every external call of the stage (HTTP fetch, storage write,
\* contract reads) has completed, and issues no external call afterwards.
Submissions(a) == {i \in 1..Len(requests[a]) : requests[a][i].kind = "a2a_transaction"}

ExternalCalls(a) == {i \in 1..Len(requests[a]) : requests[a][i].kind # "a2a_transaction"}

C22_OneSubmissionAfterAllCalls ==
    \A a \in Agents :
        /\ Cardinality(Submissions(a)) <= 1
        /\ \A i \in Submissions(a) :
            \* the submission is the last request of the execution
            /\ i = Len(requests[a])
            \* every external call issued before it has been answered
            /\ Len(locals[a].received) = Cardinality(ExternalCalls(a))
            /\ payload[a] = requests[a][i].payload
            /\ payload[a].type = PayloadTypeOf(behaviour[a])
        /\ Submissions(a) = {} <=> IsNone(payload[a])
        /\ pc[a] \in {"await_a2a", "await_round_end", "done"} <=> Submissions(a) # {}
        \* an answer never arrives for a call that was not issued
        /\ Len(locals[a].received) <= Cardinality(ExternalCalls(a))

C22_Witness ==
    \E a, b \in Agents :
        /\ a # b
        /\ InTxPreparation(a)
        /\ InTxPreparation(b)
        /\ Submissions(a) = {4}
        /\ Cardinality(ExternalCalls(a)) = 3
        /\ pc[a] = "done"
        /\ Submissions(b) = {4}
        /\ pc[b] = "await_round_end"
        /\ \E i \in 1..Len(visited) : visited[i] = "DecisionMaking"


\* C23: if every awaited external operation eventually completes and agreement
\* is eventually reached in every round, every run eventually reaches a
\* terminal state (Done or Failed), after two stages (DataPull, DecisionMaking)
\* when the agreed event is DONE and three when it is TRANSACT.
StageRounds == {"DataPull", "DecisionMaking", "TxPreparation"}

Terminal == current_round \in {"Done", "Failed"}

\* the stages run so far
Stages == SelectSeq(visited, LAMBDA r : r \in StageRounds)

\* agreement is eventually reached in every round: while the run has not
\* ended, the payloads of the current round come to agree again and again
AgreementReached == []<>(Agreement \/ Terminal)

StagesAtTerminal ==
    Terminal
    => /\ agreed_event \in {Event_DONE, Event_TRANSACT}
       /\ agreed_event = Event_DONE => Stages = <<"DataPull", "DecisionMaking">>
       /\ agreed_event = Event_TRANSACT
            => Stages = <<"DataPull", "DecisionMaking", "TxPreparation">>
       /\ Len(visited) = Len(Stages) + 1

C23_Termination ==
    /\ AgreementReached => <>Terminal
    /\ [](Len(Stages) <= 3)
    /\ []StagesAtTerminal
    /\ [][Terminal => Terminal']_vars

C23_Witness ==
    /\ Terminal
    /\ current_round = "Done"
    /\ agreed_event = Event_TRANSACT
    /\ Stages = <<"DataPull", "DecisionMaking", "TxPreparation">>
    /\ \A a \in Agents : pc[a] = "done" /\ InTxPreparation(a) /\ ~IsNone(payload[a].tx_hash)

====
